---- MODULE Spec2Model ----
(***************************************************************************)
(* Model of the invoice processing tool:                                   *)
(*   processors/invoice_analyzer.py    InvoiceAnalyzer                     *)
(*   processors/document_processor.py  DocumentProcessor                   *)
(*   ui/fraud_detector_ui.py           the caller of the analyzer          *)
(*                                                                         *)
(* Python values are represented as follows.                               *)
(*   dict            a function whose DOMAIN is the set of its keys        *)
(*   list            a sequence                                            *)
(*   None / NaN      the empty tuple <<>>; a number n that may be None is  *)
(*                   the one-element tuple <<n>>                           *)
(*   datetime.date   the tuple <<year, month, day>>                        *)
(*   a date literal  the tuple of its tokens, "02/15/2023" being           *)
(*                   <<2, "/", 15, "/", 2023>>                            *)
(*   str (names, text) a sequence of one-character strings; the replies of *)
(*                   the chat model and the texts of extract_invoice_data  *)
(*                   are strings, read character by character              *)
(*   float           the pair <<m, e>> standing for m / 10^e               *)
(***************************************************************************)
EXTENDS Integers, Sequences, FiniteSets, TLC

VARIABLES
    \* ---- fraud detector: one InvoiceRecord object, analysed repeatedly
    orig,        \* the record as it was before the first analysis
    invoice,     \* the record object (mutated in place by the analyzer)
    predict,     \* what the outlier model answers for the record's rows
    calls,       \* number of analyze_invoice_for_fraud calls made so far
    lastArgs,    \* <<contract_start, contract_end>> of the last call
    outcome,     \* "none" | "returned" | "raised" : how the last call ended
    result,      \* the dict the last call returned (or the exception)
    issues,      \* the local list `issues` of the last call when it ended
    fitted,      \* whether the last call fitted the outlier model
    \* ---- document processor: one process_document call
    file,              \* the uploaded file: None, or [name |-> <characters>]
    markitdownAvailable, \* MARKITDOWN_AVAILABLE, set when the module is imported
    apiKey,            \* st.session_state['deepseek_api_key']
    docPc,             \* position of the call
    handler,           \* the handler process_document dispatched to
    textLayer,         \* process_pdf: <<text>> once the text layer was read
    ocrRan,            \* pytesseract.image_to_string was called
    aiCalled,          \* _extract_with_ai was called
    tempDir,           \* "none" | "exists" | "removed": the mkdtemp directory
    tempDirBound,      \* the local temp_dir is bound
    markdown,          \* the local markdown_content
    structured,        \* the local structured_json
    errorAt,           \* the step at which the exception was raised, "" if none
    docResult,         \* the dict process_document returned
    \* ---- _extract_with_ai: the handling of one reply of the chat model
    ai_response,            \* the text of the reply (line 222)
    aiPc,              \* position of the call
    json_match,        \* whether the fence pattern matched (line 225)
    json_str,          \* the local json_str (lines 226-229)
    used_regex,        \* _extract_with_regex was called (line 238)
    aiReturn,          \* the dict _extract_with_ai returned
    \* ---- extract_invoice_data: one call
    inputText,         \* the argument text: [kind |-> its type, v |-> its characters]
    exPc,              \* position of the call
    textLines,         \* the local lines
    lineNo,            \* the loop index i of the pass under way, counted from 1
    extracted,         \* the local invoice
    branches,          \* for each line of the first pass, the branch it took
    current_item,      \* the local current_item
    net_prices,        \* the local net_prices
    collecting_prices, \* the local collecting_prices
    exRaised,          \* an exception reached the except clause (line 407)
    exReturn           \* the dict extract_invoice_data returned

analyzerVars == <<orig, invoice, predict, calls, lastArgs, outcome, result, issues, fitted>>

docVars == <<file, markitdownAvailable, apiKey, docPc, handler, textLayer, ocrRan, aiCalled,
             tempDir, tempDirBound, markdown, structured, errorAt, docResult>>

aiVars == <<ai_response, aiPc, json_match, json_str, used_regex, aiReturn>>

extractVars == <<inputText, exPc, textLines, lineNo, extracted, branches, current_item,
                 net_prices, collecting_prices, exRaised, exReturn>>

vars == <<orig, invoice, predict, calls, lastArgs, outcome, result, issues, fitted,
          file, markitdownAvailable, apiKey, docPc, handler, textLayer, ocrRan, aiCalled,
          tempDir, tempDirBound, markdown, structured, errorAt, docResult,
          ai_response, aiPc, json_match, json_str, used_regex, aiReturn,
          inputText, exPc, textLines, lineNo, extracted, branches, current_item,
          net_prices, collecting_prices, exRaised, exReturn>>

----------------------------------------------------------------------------
(* Bounds of the model *)

MaxItems == 2
MaxCalls == 2
MaxNameParts == 2
MaxPages == 2

----------------------------------------------------------------------------
(* Python helpers *)

None == <<>>

Range(s) == { s[i] : i \in 1..Len(s) }

\* d[k] = v on a dict
DictSet(d, k, v) == [x \in (DOMAIN d) \cup {k} |-> IF x = k THEN v ELSE d[x]]

\* bool(d) is False for the empty dict
IsFalsy(d) == DOMAIN d = {}

----------------------------------------------------------------------------
(* InvoiceAnalyzer.analyze_invoice_for_fraud *)

required_fields ==
    <<"invoice_number", "supplier_name", "invoice_date", "tax_id", "bank_account", "total_amount">>

\* variant: the scan of required_fields starts one entry late
missing_fields_SkipFirst(inv) ==
    LET Absent(field) == field \notin DOMAIN inv
    IN  SelectSeq(Tail(required_fields), Absent)

missing_fields(inv) ==
    LET Absent(field) == field \notin DOMAIN inv
    IN  SelectSeq(required_fields, Absent)

Issue(text, args) == [text |-> text, args |-> args]

DaysInMonth(m, y) ==
    IF m = 2
    THEN IF (y % 4 = 0 /\ y % 100 # 0) \/ y % 400 = 0 THEN 29 ELSE 28
    ELSE IF m \in {4, 6, 9, 11} THEN 30 ELSE 31

\* datetime.strptime(s, "%m/%d/%Y").date(): <<date>>, or <<>> when it raises
StrpTimeMDY(s) ==
    IF /\ s[2] = "/" /\ s[4] = "/"
       /\ s[1] \in 1..12
       /\ s[5] \in 1000..9999
       /\ s[3] \in 1..DaysInMonth(s[1], s[5])
    THEN << <<s[5], s[1], s[3]>> >>
    ELSE <<>>

\* a <= b on datetime.date
DateLeq(a, b) ==
    \/ a[1] < b[1]
    \/ a[1] = b[1] /\ a[2] < b[2]
    \/ a[1] = b[1] /\ a[2] = b[2] /\ a[3] <= b[3]

\* variant: both bounds of the contract period exclusive
InContractPeriod_Exclusive(cs, d, ce) == ~DateLeq(d, cs) /\ ~DateLeq(ce, d)

InContractPeriod(cs, d, ce) == DateLeq(cs, d) /\ DateLeq(d, ce)

DateValidationRuns(inv, cs, ce) ==
    cs # None /\ ce # None /\ "invoice_date" \in DOMAIN inv

DateIssues(inv, cs, ce) ==
    IF DateValidationRuns(inv, cs, ce)
    THEN LET parsed == StrpTimeMDY(inv["invoice_date"])
         IN  IF parsed = <<>>
             THEN <<Issue("Unable to parse invoice date format.", <<>>)>>
             ELSE IF ~InContractPeriod(cs, parsed[1], ce)
                  THEN <<Issue("Invoice date is outside the contract period.", <<>>)>>
                  ELSE <<>>
    ELSE <<>>

HighPriceThreshold == 100

HighUnitPrice(item) ==
    /\ "unit_price" \in DOMAIN item
    /\ item["unit_price"] # None
    /\ item["unit_price"][1] # 0
    /\ item["unit_price"][1] > HighPriceThreshold

PriceIssues(items) ==
    LET high == SelectSeq(items, HighUnitPrice)
    IN  [i \in 1..Len(high) |->
            Issue("High unit price detected", <<high[i]["unit_price"][1], high[i]["description"]>>)]

\* pd.DataFrame(line_items): a column per key of any item, NaN where an item lacks it
HasColumn(items, c) == \E i \in 1..Len(items) : c \in DOMAIN items[i]

Cell(item, c) == IF c \in DOMAIN item THEN item[c] ELSE None

\* a row that df_items[['unit_price', 'quantity']].dropna() keeps
NumericRow(item) == Cell(item, "unit_price") # None /\ Cell(item, "quantity") # None

df_numeric(items) == SelectSeq(items, NumericRow)

\* df_items[col] = <array>: pandas raises ValueError unless the lengths agree
ColumnAssignRaises(items) == Len(df_numeric(items)) # Len(items)

\* df_items[df_items['is_anomaly'] == -1].to_dict(orient='records')
AnomalyRows(items, pred) ==
    LET idx == { i \in 1..Len(items) : pred[i] = -1 }
        F[i \in 0..Len(items)] ==
            IF i = 0 THEN <<>>
            ELSE IF i \in idx
                 THEN Append(F[i - 1],
                             [description |-> items[i]["description"],
                              quantity |-> items[i]["quantity"],
                              unit_price |-> items[i]["unit_price"],
                              anomaly_score |-> "negative",
                              is_anomaly |-> -1])
                 ELSE F[i - 1]
    IN  F[Len(items)]

HasLineItems(inv) == "line_items" \in DOMAIN inv /\ inv["line_items"] # <<>>

ModelIsFitted(inv) ==
    /\ HasLineItems(inv)
    /\ HasColumn(inv["line_items"], "unit_price")
    /\ HasColumn(inv["line_items"], "quantity")
    /\ df_numeric(inv["line_items"]) # <<>>

\* lines 43-55: what the anomaly detection block does to the record and the issues
\* [raised, invoice, issues]
AnomalyDetection(inv, pred) ==
    IF ~ModelIsFitted(inv)
    THEN [raised |-> FALSE, invoice |-> inv, issues |-> <<>>]
    ELSE IF ColumnAssignRaises(inv["line_items"])
         THEN [raised |-> TRUE, invoice |-> inv, issues |-> <<>>]
         ELSE LET anomalies == AnomalyRows(inv["line_items"], pred)
              IN  IF anomalies # <<>>
                  THEN [raised |-> FALSE,
                        invoice |-> DictSet(inv, "anomalous_items", anomalies),
                        issues |-> <<Issue("Potential fraud/anomalies detected via machine learning model.", <<>>)>>]
                  ELSE [raised |-> FALSE, invoice |-> inv, issues |-> <<>>]

\* lines 57-69
FinalResult(inv, iss) ==
    IF iss # <<>>
    THEN LET inv2 == DictSet(inv, "warnings", iss)
         IN  [invoice |-> inv2,
              result  |-> [status |-> "warning",
                           message |-> <<"Analysis completed with warnings">>,
                           invoice |-> inv2]]
    ELSE [invoice |-> inv,
          result  |-> [status |-> "success",
                       message |-> <<"No issues detected">>,
                       invoice |-> inv]]

\* The whole call: [outcome, result, invoice, issues, fitted]
Analyze(inv, cs, ce, pred) ==
    IF IsFalsy(inv)
    THEN [outcome |-> "returned",
          result  |-> [status |-> "error", message |-> <<"Invalid invoice data">>],
          invoice |-> inv, issues |-> <<>>, fitted |-> FALSE]
    ELSE IF missing_fields(inv) # <<>>
    THEN [outcome |-> "returned",
          result  |-> [status |-> "warning",
                       message |-> <<"Missing required fields: ">> \o missing_fields(inv),
                       invoice |-> inv],
          invoice |-> inv, issues |-> <<>>, fitted |-> FALSE]
    ELSE LET early == DateIssues(inv, cs, ce)
                      \o (IF HasLineItems(inv) THEN PriceIssues(inv["line_items"]) ELSE <<>>)
             ad    == AnomalyDetection(inv, pred)
         IN  IF ad.raised
             THEN [outcome |-> "raised",
                   result  |-> [exception |-> "ValueError"],
                   invoice |-> inv, issues |-> early, fitted |-> TRUE]
             ELSE LET fin == FinalResult(ad.invoice, early \o ad.issues)
                  IN  [outcome |-> "returned",
                       result  |-> fin.result,
                       invoice |-> fin.invoice,
                       issues  |-> early \o ad.issues,
                       fitted  |-> ModelIsFitted(inv)]

----------------------------------------------------------------------------
(* Inputs of the fraud detector *)

RequiredSet == Range(required_fields)

\* date literals: in the 2023 window, on its two bounds, after it, day/month
\* swapped, ISO order with dashes, and a day the month does not have
InvoiceDates ==
    { <<2, "/", 15, "/", 2023>>, <<1, "/", 1, "/", 2023>>, <<12, "/", 31, "/", 2023>>,
      <<2, "/", 15, "/", 2024>>, <<15, "/", 2, "/", 2023>>, <<2023, "-", 2, "-", 15>>,
      <<2, "/", 30, "/", 2023>> }

ContractWindows ==
    { <<None, None>>, <<<<2023, 1, 1>>, None>>, <<None, <<2023, 12, 31>>>>,
      <<<<2023, 1, 1>>, <<2023, 12, 31>>>>, <<<<2024, 1, 1>>, <<2024, 12, 31>>>> }

ItemKinds ==
    { [description |-> "A", quantity |-> <<1>>,  unit_price |-> <<100>>],
      [description |-> "B", quantity |-> <<1>>,  unit_price |-> <<101>>],
      [description |-> "C", quantity |-> <<12>>, unit_price |-> <<500>>],
      [description |-> "D", quantity |-> <<1>>,  unit_price |-> None],
      [description |-> "E", quantity |-> None,   unit_price |-> <<101>>],
      [description |-> "F", quantity |-> <<1>>] }

ItemSeqs == UNION { [1..n -> ItemKinds] : n \in 0..MaxItems }

SampleValue(k) ==
    CASE k = "invoice_number" -> "61356291"
      [] k = "supplier_name"  -> "Chapman, Kim and Green"
      [] k = "tax_id"         -> "949-84-9105"
      [] k = "bank_account"   -> "GB50ACIE59715038217063"
      [] k = "total_amount"   -> <<9>>
      [] OTHER                -> "?"

MakeRecord(keys, date, items) ==
    [k \in keys |-> IF k = "invoice_date" THEN date
                    ELSE IF k = "line_items" THEN items
                    ELSE SampleValue(k)]

FullRecords ==
    { MakeRecord(RequiredSet \cup {"line_items"}, d, li) : d \in InvoiceDates, li \in ItemSeqs }
    \cup { MakeRecord(RequiredSet, d, <<>>) : d \in InvoiceDates }

PartialItems ==
    << [description |-> "B", quantity |-> <<1>>,  unit_price |-> <<101>>],
       [description |-> "C", quantity |-> <<12>>, unit_price |-> <<500>>] >>

PartialRecords ==
    { MakeRecord(fs \cup extra, <<2, "/", 15, "/", 2024>>, PartialItems) :
        fs \in (SUBSET RequiredSet) \ {RequiredSet}, extra \in {{}, {"line_items"}} }

InvoiceRecords == FullRecords \cup PartialRecords

\* model.predict(df_numeric): one label per row, the same label for equal rows
\* (the forest is seeded, so the labels are a function of the rows)
Predictions(inv) ==
    IF ~HasLineItems(inv) THEN {<<>>}
    ELSE LET rows == df_numeric(inv["line_items"])
         IN  { p \in [1..Len(rows) -> {1, -1}] :
                 \A i, j \in 1..Len(rows) :
                     (rows[i]["unit_price"] = rows[j]["unit_price"]
                      /\ rows[i]["quantity"] = rows[j]["quantity"]) => p[i] = p[j] }

----------------------------------------------------------------------------
(* The fraud detector as a state machine *)

\* no document is being processed
DocIdle ==
    /\ file = None
    /\ markitdownAvailable = FALSE
    /\ apiKey = <<>>
    /\ docPc = "idle"
    /\ handler = "none"
    /\ textLayer = <<>>
    /\ ocrRan = FALSE
    /\ aiCalled = FALSE
    /\ tempDir = "none"
    /\ tempDirBound = FALSE
    /\ markdown = <<>>
    /\ structured = <<>>
    /\ errorAt = ""
    /\ docResult = <<>>

\* no reply of the chat model is being handled
AiIdle ==
    /\ ai_response = ""
    /\ aiPc = "idle"
    /\ json_match = FALSE
    /\ json_str = ""
    /\ used_regex = FALSE
    /\ aiReturn = <<>>

\* extract_invoice_data is not being called
ExtractIdle ==
    /\ inputText = <<>>
    /\ exPc = "idle"
    /\ textLines = <<>>
    /\ lineNo = 0
    /\ extracted = <<>>
    /\ branches = <<>>
    /\ current_item = <<>>
    /\ net_prices = <<>>
    /\ collecting_prices = FALSE
    /\ exRaised = FALSE
    /\ exReturn = <<>>

AnalyzerInit ==
    /\ orig \in InvoiceRecords
    /\ invoice = orig
    /\ predict \in Predictions(orig)
    /\ calls = 0
    /\ lastArgs = <<None, None>>
    /\ outcome = "none"
    /\ result = <<>>
    /\ issues = <<>>
    /\ fitted = FALSE
    /\ DocIdle
    /\ AiIdle
    /\ ExtractIdle

\* FraudDetectorUI.show: the "Analyze for Fraud" button, on the session's record
\* (app.run shows one page per run: no document is being processed meanwhile)
AnalyzeForFraud ==
    /\ docPc = "idle"
    /\ calls < MaxCalls
    /\ \E w \in ContractWindows :
         LET r == Analyze(invoice, w[1], w[2], predict)
         IN  /\ lastArgs' = w
             /\ outcome' = r.outcome
             /\ result' = r.result
             /\ invoice' = r.invoice
             /\ issues' = r.issues
             /\ fitted' = r.fitted
    /\ calls' = calls + 1
    /\ UNCHANGED <<orig, predict>>
    /\ UNCHANGED <<docVars, aiVars, extractVars>>

AnalyzerNext == AnalyzeForFraud

SpecAnalyzer == AnalyzerInit /\ [][AnalyzerNext]_vars

----------------------------------------------------------------------------
(* Properties of the fraud detector *)

Called == outcome # "none"

Returned == outcome = "returned"

AllRequiredPresent(inv) == RequiredSet \subseteq DOMAIN inv

HasIssue(text) == \E i \in 1..Len(issues) : issues[i].text = text

\* C1 (as stated): every record missing at least one required field, the empty
\* record included, is answered with status = warning, a message listing the
\* missing field names, and no fit of the outlier model.
C1_AsStated ==
    (Called /\ ~AllRequiredPresent(invoice)) =>
        /\ Returned
        /\ result["status"] = "warning"
        /\ Range(Tail(result["message"])) = RequiredSet \ DOMAIN invoice
        /\ ~fitted

\* C1 (amended): every record that has at least one key and misses at least one
\* required field is answered with status = warning, a message listing exactly the
\* missing field names in the order of required_fields, and the record itself; the
\* empty record is answered with status = error, "Invalid invoice data"; in both
\* cases the outlier model is not fitted and the record is left as it was.
C1_MissingFieldsShortCircuit ==
    (Called /\ ~AllRequiredPresent(invoice)) =>
        /\ Returned
        /\ ~fitted
        /\ invoice = orig
        /\ IF DOMAIN invoice = {}
           THEN /\ result["status"] = "error"
                /\ result["message"] = <<"Invalid invoice data">>
           ELSE /\ result["status"] = "warning"
                /\ Head(result["message"]) = "Missing required fields: "
                /\ Range(Tail(result["message"])) = RequiredSet \ DOMAIN invoice
                /\ Len(Tail(result["message"])) = Cardinality(RequiredSet \ DOMAIN invoice)
                /\ \A i, j \in 1..Len(result["message"]) - 1 :
                       i < j => \E a, b \in 1..Len(required_fields) :
                                    /\ a < b
                                    /\ required_fields[a] = result["message"][i + 1]
                                    /\ required_fields[b] = result["message"][j + 1]
                /\ result["invoice"] = invoice

\* C1 witness: a record with two complete line items (rows the outlier model could
\* be fitted on) that misses two required fields has been analysed.
C1_Witness ==
    /\ Returned
    /\ result["status"] = "warning"
    /\ RequiredSet \ DOMAIN invoice = {"tax_id", "invoice_date"}
    /\ HasLineItems(invoice)
    /\ df_numeric(invoice["line_items"]) # <<>>
    /\ ~fitted

MixedItems(items) ==
    /\ \E i \in 1..Len(items) : NumericRow(items[i])
    /\ \E i \in 1..Len(items) : ~NumericRow(items[i])

\* C2: a record with all required fields whose line items mix complete items with
\* items lacking unit_price or quantity is answered with a tagged result (success
\* or warning), never an exception, and line_items is returned as it was given.
C2_MixedItemsReturnTagged ==
    (Called /\ AllRequiredPresent(invoice) /\ HasLineItems(invoice)
            /\ MixedItems(invoice["line_items"])) =>
        /\ Returned
        /\ result["status"] \in {"success", "warning"}
        /\ result["invoice"]["line_items"] = orig["line_items"]

Carried(res, k) ==
    IF "invoice" \in DOMAIN res /\ k \in DOMAIN res["invoice"]
    THEN <<res["invoice"][k]>>
    ELSE <<>>

\* C3: every call answers as it would on a fresh copy of the original record: same
\* status, same warnings and same anomalous_items carried by the returned record.
C3_StatelessAcrossCalls ==
    Returned =>
        LET fresh == Analyze(orig, lastArgs[1], lastArgs[2], predict).result
        IN  /\ result["status"] = fresh["status"]
            /\ Carried(result, "warnings") = Carried(fresh, "warnings")
            /\ Carried(result, "anomalous_items") = Carried(fresh, "anomalous_items")

\* C4: a record with all required fields, analysed once, is answered with status =
\* warning iff at least one issue was accumulated and with success otherwise, and
\* with status = warning its warnings are exactly the accumulated issues in order.
C4_StatusIffIssues ==
    (calls = 1 /\ AllRequiredPresent(orig)) =>
        /\ Returned
        /\ result["status"] = (IF issues # <<>> THEN "warning" ELSE "success")
        /\ result["status"] = "warning" => result["invoice"]["warnings"] = issues

\* the day count of a token triple month, day, year (a total order on dates)
Ordinal(y, m, d) == y * 10000 + m * 100 + d

IsMonthDayYear(s) ==
    /\ s[2] = "/" /\ s[4] = "/"
    /\ s[1] >= 1 /\ s[1] <= 12
    /\ s[3] >= 1 /\ s[3] <= DaysInMonth(s[1], s[5])
    /\ s[5] >= 1000 /\ s[5] <= 9999

\* C5: on a record with all required fields, neither date warning is appended
\* unless both contract bounds are given; with both given, a date that parses as
\* month/day/year gets "outside the contract period" iff it is before the start or
\* after the end (bounds inclusive) and never "unable to parse"; a date that does
\* not parse gets exactly "unable to parse".
C5_DateValidation ==
    (Called /\ AllRequiredPresent(invoice)) =>
        LET cs == lastArgs[1]
            ce == lastArgs[2]
            s  == invoice["invoice_date"]
            outside == HasIssue("Invoice date is outside the contract period.")
            unable  == HasIssue("Unable to parse invoice date format.")
        IN  IF cs = None \/ ce = None
            THEN ~outside /\ ~unable
            ELSE IF IsMonthDayYear(s)
                 THEN /\ ~unable
                      /\ outside <=> \/ Ordinal(s[5], s[1], s[3]) < Ordinal(cs[1], cs[2], cs[3])
                                     \/ Ordinal(s[5], s[1], s[3]) > Ordinal(ce[1], ce[2], ce[3])
                      /\ outside => issues[1].text = "Invoice date is outside the contract period."
                 ELSE /\ unable /\ ~outside
                      /\ issues[1].text = "Unable to parse invoice date format."

\* C5 witness: an invoice dated on the last day of the contract period has been
\* analysed against that period and carries no date warning.
C5_Witness ==
    /\ Returned
    /\ AllRequiredPresent(invoice)
    /\ invoice["invoice_date"] = <<12, "/", 31, "/", 2023>>
    /\ lastArgs = <<<<2023, 1, 1>>, <<2023, 12, 31>>>>
    /\ issues = <<>>
    /\ result["status"] = "success"

----------------------------------------------------------------------------
(* str helpers *)

Whitespace == {" ", "\n"}

RECURSIVE LStrip(_)
LStrip(s) == IF s # <<>> /\ Head(s) \in Whitespace THEN LStrip(Tail(s)) ELSE s

RECURSIVE RStrip(_)
RStrip(s) ==
    IF s # <<>> /\ s[Len(s)] \in Whitespace THEN RStrip(SubSeq(s, 1, Len(s) - 1)) ELSE s

\* s.strip()
Strip(s) == RStrip(LStrip(s))

LowerChar(c) ==
    CASE c = "P" -> "p" [] c = "N" -> "n" [] c = "G" -> "g"
      [] c = "D" -> "d" [] c = "F" -> "f" [] OTHER -> c

\* s.lower()
Lower(s) == [i \in 1..Len(s) |-> LowerChar(s[i])]

\* s.split('.')[-1]
RECURSIVE LastDotPart(_)
LastDotPart(s) ==
    IF s = <<>> \/ s[Len(s)] = "."
    THEN <<>>
    ELSE Append(LastDotPart(SubSeq(s, 1, Len(s) - 1)), s[Len(s)])

\* sep.join(parts)
RECURSIVE Join(_, _)
Join(parts, sep) ==
    IF parts = <<>> THEN <<>>
    ELSE IF Len(parts) = 1 THEN parts[1]
    ELSE parts[1] \o sep \o Join(Tail(parts), sep)

----------------------------------------------------------------------------
(* DocumentProcessor.process_document and its three handlers *)

\* variant: the extension is compared as typed, without .lower()
file_extension_CaseSensitive(f) == LastDotPart(f["name"])

file_extension(f) == Lower(LastDotPart(f["name"]))

ImageExtensions ==
    { <<"p", "n", "g">>, <<"j", "p", "g">>, <<"j", "p", "e", "g">>,
      <<"b", "m", "p">>, <<"g", "i", "f">>, <<"t", "i", "f", "f">> }

PdfExtension == <<"p", "d", "f">>

Dispatch(f) ==
    IF file_extension(f) \in ImageExtensions THEN "process_image_ocr"
    ELSE IF file_extension(f) = PdfExtension THEN "process_pdf"
    ELSE "process_with_markitdown"

\* the record extract_invoice_data returns for a text (the call never raises)
InvoiceDataOf(text) == <<"extract_invoice_data", text>>

\* the success dict of process_image_ocr and process_pdf
TextResult(method, text) ==
    [status |-> "success", method |-> method, raw_text |-> text,
     structured_data |-> InvoiceDataOf(text), formatted_text |-> text]

ImageErrorResult(e) ==
    [status |-> "error", method |-> "ocr", message |-> <<"Error processing image: ", e>>]

\* variant: the error path of process_pdf reports the method it was attempting
PdfErrorResult_Ocr(e) ==
    [status |-> "error", method |-> "ocr", message |-> <<"Error processing PDF: ", e>>]

PdfErrorResult(e) ==
    [status |-> "error", method |-> "pdf_processing", message |-> <<"Error processing PDF: ", e>>]

\* variant: only the first character is looked at
NeedsOcr_FirstCharOnly(text) == text = <<>> \/ Head(text) \in Whitespace

\* `if not extracted_text.strip()`
NeedsOcr(text) == Strip(text) = <<>>

MarkitdownMissingResult ==
    [status |-> "error", method |-> "markitdown",
     message |-> <<"MarkItDown library is not installed. Please install it to use this feature.">>]

NoKeyResult(md) ==
    [status |-> "warning", method |-> "markitdown", raw_text |-> md,
     message |-> <<"DeepSeek API key not provided. Only markdown conversion is available.">>]

MarkitdownSuccessResult(md, sj) ==
    [status |-> "success", method |-> "markitdown", raw_text |-> md,
     structured_data |-> sj["data"], formatted_text |-> md,
     ai_extracted_text |-> sj["raw_response"]]

\* variant: the error dict still carries what was extracted so far
MarkitdownErrorResult_Partial(e) ==
    [status |-> "error", method |-> "markitdown",
     message |-> <<"Error processing with MarkItDown: ", e>>,
     structured_data |-> <<"partial", e>>]

MarkitdownErrorResult(e) ==
    [status |-> "error", method |-> "markitdown",
     message |-> <<"Error processing with MarkItDown: ", e>>]

\* shutil.rmtree(temp_dir) on the directory mkdtemp created
RmTree(dir) == "removed"

\* variant: the handler only reports the error
ExceptCleanup_None(bound, dir) == dir

\* lines 156-159: try: shutil.rmtree(temp_dir) / except: pass. With temp_dir
\* unbound (mkdtemp raised) the NameError is swallowed and nothing is removed.
ExceptCleanup(bound, dir) == IF bound /\ dir = "exists" THEN RmTree(dir) ELSE dir

----------------------------------------------------------------------------
(* Inputs of the document processor *)

NameParts ==
    { <<"a">>, <<>>, <<"p", "n", "g">>, <<"P", "N", "G">>, <<"j", "p", "g">>,
      <<"j", "p", "e", "g">>, <<"b", "m", "p">>, <<"g", "i", "f">>,
      <<"t", "i", "f", "f">>, <<"t", "i", "f">>, <<"p", "d", "f">>, <<"P", "d", "f">>,
      <<"t", "x", "t">> }

FileNames ==
    { Join(parts, <<".">>) : parts \in UNION { [1..n -> NameParts] : n \in 1..MaxNameParts } }
    \ { <<>> }

UploadedFiles == {None} \cup { [name |-> n] : n \in FileNames }

\* the text layer of one PDF page
PageTexts == { <<>>, <<" ">>, <<"a">>, <<" ", "a", "\n">> }

PdfPages == UNION { [1..n -> PageTexts] : n \in 1..MaxPages }

OcrTexts == { <<>>, <<"a">> }

MarkdownTexts == { <<>>, <<"#", " ", "a">> }

ApiKeys == { <<>>, <<"s", "k">> }

\* what _extract_with_ai returns for a model reply
AiExtractions ==
    { [data |-> <<"json", reply>>, raw_response |-> reply] : reply \in { <<"{", "}">> } }

----------------------------------------------------------------------------
(* The document processor as a state machine *)

AnalyzerIdle ==
    /\ orig = <<>>
    /\ invoice = <<>>
    /\ predict = <<>>
    /\ calls = 0
    /\ lastArgs = <<None, None>>
    /\ outcome = "none"
    /\ result = <<>>
    /\ issues = <<>>
    /\ fitted = FALSE

DocInit ==
    /\ file \in UploadedFiles
    /\ markitdownAvailable \in BOOLEAN
    /\ apiKey \in ApiKeys
    /\ docPc = "start"
    /\ handler = "none"
    /\ textLayer = <<>>
    /\ ocrRan = FALSE
    /\ aiCalled = FALSE
    /\ tempDir = "none"
    /\ tempDirBound = FALSE
    /\ markdown = <<>>
    /\ structured = <<>>
    /\ errorAt = ""
    /\ docResult = <<>>
    /\ AnalyzerIdle
    /\ AiIdle
    /\ ExtractIdle

\* process_document, lines 31-48
ProcessDocument ==
    /\ docPc = "start"
    /\ IF file = None
       THEN /\ docResult' = [status |-> "error", message |-> <<"No file uploaded">>]
            /\ docPc' = "done"
            /\ handler' = handler
       ELSE /\ handler' = Dispatch(file)
            /\ docPc' = Dispatch(file)
            /\ docResult' = docResult
    /\ UNCHANGED <<file, markitdownAvailable, apiKey, textLayer, ocrRan, aiCalled,
                   tempDir, tempDirBound, markdown, structured, errorAt>>
    /\ UNCHANGED <<analyzerVars, aiVars, extractVars>>

\* process_image_ocr, lines 50-71
ProcessImageOcr ==
    /\ docPc = "process_image_ocr"
    /\ \/ /\ errorAt' = "Image.open"
          /\ ocrRan' = FALSE
          /\ docResult' = ImageErrorResult("UnidentifiedImageError")
       \/ /\ errorAt' = "image_to_string"
          /\ ocrRan' = TRUE
          /\ docResult' = ImageErrorResult("TesseractError")
       \/ \E text \in OcrTexts :
             /\ errorAt' = ""
             /\ ocrRan' = TRUE
             /\ docResult' = TextResult("ocr", text)
    /\ docPc' = "done"
    /\ UNCHANGED <<file, markitdownAvailable, apiKey, handler, textLayer, aiCalled,
                   tempDir, tempDirBound, markdown, structured>>
    /\ UNCHANGED <<analyzerVars, aiVars, extractVars>>

\* process_pdf, lines 73-105
ProcessPdf ==
    /\ docPc = "process_pdf"
    /\ \/ /\ errorAt' = "fitz.open"
          /\ textLayer' = <<>>
          /\ ocrRan' = FALSE
          /\ docResult' = PdfErrorResult("FileDataError")
       \/ \E pages \in PdfPages :
             LET extracted_text == Join(pages, <<"\n">>)
             IN  /\ textLayer' = <<extracted_text>>
                 /\ IF NeedsOcr(extracted_text)
                    THEN \/ /\ errorAt' = "convert_from_bytes"
                            /\ ocrRan' = FALSE
                            /\ docResult' = PdfErrorResult("PDFPageCountError")
                         \/ /\ errorAt' = "image_to_string"
                            /\ ocrRan' = TRUE
                            /\ docResult' = PdfErrorResult("TesseractError")
                         \/ \E text \in OcrTexts :
                               /\ errorAt' = ""
                               /\ ocrRan' = TRUE
                               /\ docResult' = TextResult("ocr", text)
                    ELSE /\ errorAt' = ""
                         /\ ocrRan' = FALSE
                         /\ docResult' = TextResult("text_extraction", extracted_text)
    /\ docPc' = "done"
    /\ UNCHANGED <<file, markitdownAvailable, apiKey, handler, aiCalled,
                   tempDir, tempDirBound, markdown, structured>>
    /\ UNCHANGED <<analyzerVars, aiVars, extractVars>>

\* process_with_markitdown, lines 109-114
MarkitdownEnter ==
    /\ docPc = "process_with_markitdown"
    /\ IF ~markitdownAvailable
       THEN /\ docResult' = MarkitdownMissingResult
            /\ docPc' = "done"
       ELSE /\ docResult' = docResult
            /\ docPc' = "mkdtemp"
    /\ UNCHANGED <<file, markitdownAvailable, apiKey, handler, textLayer, ocrRan, aiCalled,
                   tempDir, tempDirBound, markdown, structured, errorAt>>
    /\ UNCHANGED <<analyzerVars, aiVars, extractVars>>

\* line 118: temp_dir = tempfile.mkdtemp()
MarkitdownMkdtemp ==
    /\ docPc = "mkdtemp"
    /\ \/ /\ tempDir' = "exists"
          /\ tempDirBound' = TRUE
          /\ docPc' = "write"
          /\ errorAt' = errorAt
       \/ /\ UNCHANGED <<tempDir, tempDirBound>>
          /\ errorAt' = "mkdtemp"
          /\ docPc' = "except"
    /\ UNCHANGED <<file, markitdownAvailable, apiKey, handler, textLayer, ocrRan, aiCalled,
                   markdown, structured, docResult>>
    /\ UNCHANGED <<analyzerVars, aiVars, extractVars>>

\* lines 119-123: the uploaded bytes are written into the directory
MarkitdownWrite ==
    /\ docPc = "write"
    /\ \/ /\ docPc' = "convert"
          /\ errorAt' = errorAt
       \/ /\ errorAt' = "write"
          /\ docPc' = "except"
    /\ UNCHANGED <<file, markitdownAvailable, apiKey, handler, textLayer, ocrRan, aiCalled,
                   tempDir, tempDirBound, markdown, structured, docResult>>
    /\ UNCHANGED <<analyzerVars, aiVars, extractVars>>

\* lines 126-128: md.convert(file_path).text_content
MarkitdownConvert ==
    /\ docPc = "convert"
    /\ \/ \E md \in MarkdownTexts :
             /\ markdown' = md
             /\ docPc' = "check_key"
             /\ errorAt' = errorAt
       \/ /\ markdown' = markdown
          /\ errorAt' = "convert"
          /\ docPc' = "except"
    /\ UNCHANGED <<file, markitdownAvailable, apiKey, handler, textLayer, ocrRan, aiCalled,
                   tempDir, tempDirBound, structured, docResult>>
    /\ UNCHANGED <<analyzerVars, aiVars, extractVars>>

\* variant: only a key that was never set counts as missing (`api_key is None`)
ApiKeyMissing_NoneOnly(key) == FALSE

\* line 132: `if not api_key`, the key being a str (app.py sets "" by default)
ApiKeyMissing(key) == key = <<>>

\* lines 131-139: without an API key the directory is removed and a warning returned
MarkitdownCheckKey ==
    /\ docPc = "check_key"
    /\ IF ApiKeyMissing(apiKey)
       THEN /\ tempDir' = RmTree(tempDir)
            /\ docResult' = NoKeyResult(markdown)
            /\ docPc' = "done"
       ELSE /\ UNCHANGED <<tempDir, docResult>>
            /\ docPc' = "extract_with_ai"
    /\ UNCHANGED <<file, markitdownAvailable, apiKey, handler, textLayer, ocrRan, aiCalled,
                   tempDirBound, markdown, structured, errorAt>>
    /\ UNCHANGED <<analyzerVars, aiVars, extractVars>>

\* line 141: structured_json = self._extract_with_ai(api_key, markdown_content)
MarkitdownExtractWithAi ==
    /\ docPc = "extract_with_ai"
    /\ aiCalled' = TRUE
    /\ \/ \E sj \in AiExtractions :
             /\ structured' = sj
             /\ docPc' = "cleanup"
             /\ errorAt' = errorAt
       \/ /\ structured' = structured
          /\ errorAt' = "extract_with_ai"
          /\ docPc' = "except"
    /\ UNCHANGED <<file, markitdownAvailable, apiKey, handler, textLayer, ocrRan,
                   tempDir, tempDirBound, markdown, docResult>>
    /\ UNCHANGED <<analyzerVars, aiVars, extractVars>>

\* lines 143-153: shutil.rmtree(temp_dir), then the success dict
MarkitdownCleanupReturn ==
    /\ docPc = "cleanup"
    /\ tempDir' = RmTree(tempDir)
    /\ docResult' = MarkitdownSuccessResult(markdown, structured)
    /\ docPc' = "done"
    /\ UNCHANGED <<file, markitdownAvailable, apiKey, handler, textLayer, ocrRan, aiCalled,
                   tempDirBound, markdown, structured, errorAt>>
    /\ UNCHANGED <<analyzerVars, aiVars, extractVars>>

\* lines 155-165: the except block
MarkitdownExcept ==
    /\ docPc = "except"
    /\ tempDir' = ExceptCleanup(tempDirBound, tempDir)
    /\ docResult' = MarkitdownErrorResult(errorAt)
    /\ docPc' = "done"
    /\ UNCHANGED <<file, markitdownAvailable, apiKey, handler, textLayer, ocrRan, aiCalled,
                   tempDirBound, markdown, structured, errorAt>>
    /\ UNCHANGED <<analyzerVars, aiVars, extractVars>>

DocNext ==
    \/ ProcessDocument
    \/ ProcessImageOcr
    \/ ProcessPdf
    \/ MarkitdownEnter
    \/ MarkitdownMkdtemp
    \/ MarkitdownWrite
    \/ MarkitdownConvert
    \/ MarkitdownCheckKey
    \/ MarkitdownExtractWithAi
    \/ MarkitdownCleanupReturn
    \/ MarkitdownExcept

SpecDoc == DocInit /\ [][DocNext]_vars

----------------------------------------------------------------------------
(* Properties of the document processor *)

DocDone == docPc = "done"

NonBlank(text) == \E i \in 1..Len(text) : text[i] \notin {" ", "\n"}

\* C6 (as stated): a PDF whose text layer yields non-empty text is reported with
\* method = text_extraction and OCR is not run on it.
C6_AsStated ==
    (DocDone /\ handler = "process_pdf" /\ textLayer # <<>> /\ textLayer[1] # <<>>) =>
        /\ docResult["method"] = "text_extraction"
        /\ ~ocrRan

\* C6 (amended): a PDF whose text layer yields text with at least one
\* non-whitespace character is reported with status = success, method =
\* text_extraction and that text as raw_text, and OCR is not run on it.
C6_TextLayerWins ==
    (DocDone /\ handler = "process_pdf" /\ textLayer # <<>> /\ NonBlank(textLayer[1])) =>
        /\ docResult["status"] = "success"
        /\ docResult["method"] = "text_extraction"
        /\ docResult["raw_text"] = textLayer[1]
        /\ ~ocrRan

\* C6 witness: a PDF whose text layer starts and ends with whitespace around a
\* letter has been processed by text extraction.
C6_Witness ==
    /\ DocDone
    /\ handler = "process_pdf"
    /\ textLayer = << <<" ", "a", "\n", "\n">> >>
    /\ docResult["method"] = "text_extraction"

\* the text after the last dot of a name (the whole name when it has no dot)
AfterLastDot(name) ==
    LET dots == { i \in 1..Len(name) : name[i] = "." }
        last == IF dots = {} THEN 0 ELSE CHOOSE i \in dots : \A j \in dots : j <= i
    IN  SubSeq(name, last + 1, Len(name))

ClaimedImageExtensions ==
    { <<"p", "n", "g">>, <<"j", "p", "g">>, <<"j", "p", "e", "g">>,
      <<"b", "m", "p">>, <<"g", "i", "f">>, <<"t", "i", "f", "f">> }

\* C7: a file whose extension (text after the last dot, case-insensitive) is png,
\* jpg, jpeg, bmp, gif or tiff goes to the OCR handler and its result has method =
\* ocr whether OCR succeeds or raises; pdf goes to the PDF handler; every other
\* extension goes to the markup-conversion handler.
C7_DispatchByExtension ==
    (file # None /\ handler # "none") =>
        LET ext == Lower(AfterLastDot(file["name"]))
        IN  /\ ext \in ClaimedImageExtensions =>
                 /\ handler = "process_image_ocr"
                 /\ DocDone => ("method" \in DOMAIN docResult /\ docResult["method"] = "ocr")
            /\ ext = <<"p", "d", "f">> => handler = "process_pdf"
            /\ (ext \notin ClaimedImageExtensions /\ ext # <<"p", "d", "f">>) =>
                 handler = "process_with_markitdown"

\* C7 witness: the file "a.PNG" went to the OCR handler, OCR raised, and the error
\* result is tagged ocr.
C7_Witness ==
    /\ DocDone
    /\ file # None
    /\ file["name"] = <<"a", ".", "P", "N", "G">>
    /\ errorAt = "image_to_string"
    /\ docResult["status"] = "error"
    /\ docResult["method"] = "ocr"

\* C8: in every result of process_document, status = error implies there is no
\* structured_data, and status = success implies raw_text is present.
C8_ResultShape ==
    DocDone =>
        /\ docResult["status"] = "error" =>
               ("structured_data" \notin DOMAIN docResult \/ docResult["structured_data"] = None)
        /\ docResult["status"] = "success" => "raw_text" \in DOMAIN docResult

\* C8 witness: the markup-conversion handler converted the file, the AI extraction
\* raised, and the error result has been returned.
C8_Witness ==
    /\ DocDone
    /\ handler = "process_with_markitdown"
    /\ errorAt = "extract_with_ai"
    /\ markdown # <<>>
    /\ docResult["status"] = "error"

\* C9 (as stated): every result of process_document for an uploaded file, error
\* results included, carries a method tag, one of ocr, text_extraction, markup
\* conversion (tagged "markitdown" by the code).
C9_AsStated ==
    (DocDone /\ file # None) =>
        /\ "method" \in DOMAIN docResult
        /\ docResult["method"] \in {"ocr", "text_extraction", "markitdown"}

\* C9 (amended): every result of process_document for an uploaded file carries a
\* method tag; the tag is one of ocr, text_extraction, markitdown, except on the
\* error path of the PDF handler, where it is pdf_processing; the error result for
\* a missing file carries no method tag.
C9_MethodTag ==
    DocDone =>
        IF file = None
        THEN "method" \notin DOMAIN docResult
        ELSE /\ "method" \in DOMAIN docResult
             /\ IF handler = "process_pdf" /\ docResult["status"] = "error"
                THEN docResult["method"] = "pdf_processing"
                ELSE docResult["method"] \in {"ocr", "text_extraction", "markitdown"}

\* C9 witness: a PDF without text layer was sent to OCR, OCR raised, and the error
\* result is tagged pdf_processing.
C9_Witness ==
    /\ DocDone
    /\ handler = "process_pdf"
    /\ ocrRan
    /\ docResult["status"] = "error"
    /\ docResult["method"] = "pdf_processing"

\* C10: when process_with_markitdown has returned, on any exit path, the temporary
\* directory it created no longer exists.
C10_TempDirRemoved ==
    DocDone => /\ tempDir # "exists"
               /\ tempDirBound => tempDir = "removed"

\* C10 witness: the directory was created, the AI extraction raised, and the call
\* has returned with the directory removed.
C10_Witness ==
    /\ DocDone
    /\ errorAt = "extract_with_ai"
    /\ aiCalled
    /\ tempDirBound
    /\ tempDir = "removed"

\* C11: when the converter is available and the conversion succeeds but no API key
\* is configured, process_with_markitdown returns status = warning with raw_text
\* set to the converted text and no structured_data, and _extract_with_ai is not
\* called.
C11_NoKeyWarning ==
    /\ apiKey = <<>> => ~aiCalled
    /\ (DocDone /\ handler = "process_with_markitdown" /\ markitdownAvailable
            /\ apiKey = <<>> /\ errorAt = "") =>
          /\ docResult["status"] = "warning"
          /\ docResult["method"] = "markitdown"
          /\ docResult["raw_text"] = markdown
          /\ "structured_data" \notin DOMAIN docResult
          /\ ~aiCalled

\* C11 witness: a text file was converted to non-empty markdown with no API key
\* configured, and the warning result has been returned.
C11_Witness ==
    /\ DocDone
    /\ handler = "process_with_markitdown"
    /\ apiKey = <<>>
    /\ tempDir = "removed"
    /\ errorAt = ""
    /\ markdown = <<"#", " ", "a">>
    /\ docResult["status"] = "warning"

----------------------------------------------------------------------------
(* Python str of the reply handling and of the text extractor.  Such a str  *)
(* is a string of this language and Ch(s, i) is s[i-1].  A string literal   *)
(* of this language cannot hold the backtick, so "~" stands for it in every *)
(* modelled reply.                                                          *)

Backtick == "~"

Fence == Backtick \o Backtick \o Backtick

Ch(s, i) == SubSeq(s, i, i)

Digits == {"0", "1", "2", "3", "4", "5", "6", "7", "8", "9"}

\* the characters `\s` matches and str.strip() removes
Space == {" ", "\t", "\n", "\r", "\f"}

MinOf(S) == CHOOSE x \in S : \A y \in S : x <= y

MaxOf(S) == CHOOSE x \in S : \A y \in S : y <= x

\* s.strip()
StrStrip(s) ==
    LET keep == { i \in 1..Len(s) : Ch(s, i) \notin Space }
    IN  IF keep = {} THEN "" ELSE SubSeq(s, MinOf(keep), MaxOf(keep))

\* s.startswith(sub, i-1)
StartsAt(s, sub, i) ==
    /\ i >= 1
    /\ i + Len(sub) - 1 <= Len(s)
    /\ SubSeq(s, i, i + Len(sub) - 1) = sub

\* s.find(sub, from-1) + 1: the first place at or after `from` where sub occurs, 0 if none
StrFind(s, sub, from) ==
    LET hits == { i \in from..(Len(s) - Len(sub) + 1) : StartsAt(s, sub, i) }
    IN  IF hits = {} THEN 0 ELSE MinOf(hits)

\* sub in s
StrContains(s, sub) == StrFind(s, sub, 1) # 0

\* the end of a greedy run `[class]*` that starts at i: the first place at or
\* after i whose character is not in class, Len(s) + 1 if there is none
SkipIn(s, i, class) ==
    MinOf({ k \in i..(Len(s) + 1) : k = Len(s) + 1 \/ Ch(s, k) \notin class })

\* int(c) of a digit character
DigitOf(c) == CHOOSE d \in 0..9 : Ch("0123456789", d + 1) = c

RECURSIVE DigitsVal(_)
\* int(s) of a run of digits, int("") taken as 0
DigitsVal(s) ==
    IF s = "" THEN 0
    ELSE DigitsVal(SubSeq(s, 1, Len(s) - 1)) * 10 + DigitOf(Ch(s, Len(s)))

RECURSIVE DropZeros(_)
DropZeros(s) ==
    IF s # "" /\ Ch(s, Len(s)) = "0" THEN DropZeros(SubSeq(s, 1, Len(s) - 1)) ELSE s

\* the number with integer digits a and fraction digits b, as <<m, e>> for
\* m / 10^e with e the least possible: 9, 9. and 9.0 are all <<9, 0>>
Number(a, b) == <<DigitsVal(a \o DropZeros(b)), Len(DropZeros(b))>>

----------------------------------------------------------------------------
(* Values of json and of _extract_with_regex: tagged, so that values of     *)
(* different Python types can be compared.                                  *)

JStr(s) == [t |-> "str", v |-> s]

JNum(n) == [t |-> "num", v |-> n]

JObj(d) == [t |-> "dict", v |-> d]

JArr(a) == [t |-> "list", v |-> a]

JLit(x) == [t |-> "literal", v |-> x]

\* variant: the optional json tag is left in the captured group
FenceSearch_NoTag(s) ==
    LET open  == StrFind(s, Fence, 1)
        start == SkipIn(s, open + 3, Space)
        close == StrFind(s, Fence, start)
        body  == { k \in start..(close - 1) : Ch(s, k) \notin Space }
    IN  IF open = 0 \/ close = 0 THEN <<>>
        ELSE <<IF body = {} THEN "" ELSE SubSeq(s, start, MaxOf(body))>>

\* line 225: re.search of  FENCE(?:json)?\s*([\s\S]*?)\s*FENCE  in s; <<>> when
\* there is no match, else <<group(1)>>.  The search starts at the first
\* fence; the tag and the white space after it are taken greedily, the group
\* lazily, so the group ends before the white space that precedes the next
\* fence.  A fence after the first one can only lie after the tag and the white
\* space, so no other start and no other choice can match when this one fails.
FenceSearch(s) ==
    LET open  == StrFind(s, Fence, 1)
        tag   == IF StartsAt(s, "json", open + 3) THEN open + 7 ELSE open + 3
        start == SkipIn(s, tag, Space)
        close == StrFind(s, Fence, start)
        body  == { k \in start..(close - 1) : Ch(s, k) \notin Space }
    IN  IF open = 0 \/ close = 0 THEN <<>>
        ELSE <<IF body = {} THEN "" ELSE SubSeq(s, start, MaxOf(body))>>

----------------------------------------------------------------------------
(* json.loads, for documents without escape sequences and without exponents *)
(* (none of the modelled replies has one).  A parse step answers with       *)
(* [ok, next, val]: whether a value was read, the place after it, the value *)

JsonWs == {" ", "\t", "\n", "\r"}

JsonFail == [ok |-> FALSE, next |-> 0, val |-> JLit("none")]

JsonOk(next, val) == [ok |-> TRUE, next |-> next, val |-> val]

\* the string whose opening quote is at i; a control character ends the parse
JsonString(s, i) ==
    LET close == StrFind(s, "\"", i + 1)
        inner == SubSeq(s, i + 1, close - 1)
    IN  IF ~StartsAt(s, "\"", i) \/ close = 0 THEN JsonFail
        ELSE IF \E k \in 1..Len(inner) : Ch(inner, k) \in {"\n", "\t", "\r", "\f", "\\"}
             THEN JsonFail
        ELSE JsonOk(close + 1, JStr(inner))

\* the number at i:  -?(0|[1-9]\d*)(\.\d+)?
JsonNumber(s, i) ==
    LET a    == IF StartsAt(s, "-", i) THEN i + 1 ELSE i
        b    == IF StartsAt(s, "0", a) THEN a + 1 ELSE SkipIn(s, a, Digits)
        frac == StartsAt(s, ".", b) /\ SkipIn(s, b + 1, Digits) > b + 1
        c    == IF frac THEN SkipIn(s, b + 1, Digits) ELSE b
        n    == Number(SubSeq(s, a, b - 1), SubSeq(s, b + 1, c - 1))
    IN  IF b = a THEN JsonFail
        ELSE JsonOk(c, JNum(IF a = i THEN n ELSE <<0 - n[1], n[2]>>))

RECURSIVE JsonValue(_, _), JsonMembers(_, _, _), JsonElements(_, _, _)

\* the value that starts at or after i
JsonValue(s, i) ==
    LET j == SkipIn(s, i, JsonWs)
        k == SkipIn(s, j + 1, JsonWs)
    IN  IF j > Len(s) THEN JsonFail
        ELSE IF Ch(s, j) = "{"
             THEN IF StartsAt(s, "}", k) THEN JsonOk(k + 1, JObj(<<>>))
                  ELSE JsonMembers(s, k, <<>>)
        ELSE IF Ch(s, j) = "["
             THEN IF StartsAt(s, "]", k) THEN JsonOk(k + 1, JArr(<<>>))
                  ELSE JsonElements(s, k, <<>>)
        ELSE IF Ch(s, j) = "\"" THEN JsonString(s, j)
        ELSE IF Ch(s, j) \in Digits \cup {"-"} THEN JsonNumber(s, j)
        ELSE IF StartsAt(s, "true", j) THEN JsonOk(j + 4, JLit("True"))
        ELSE IF StartsAt(s, "false", j) THEN JsonOk(j + 5, JLit("False"))
        ELSE IF StartsAt(s, "null", j) THEN JsonOk(j + 4, JLit("None"))
        ELSE JsonFail

\* the members of an object from the key at i on, acc holding those read so far
JsonMembers(s, i, acc) ==
    LET key   == JsonString(s, i)
        colon == SkipIn(s, key.next, JsonWs)
        val   == JsonValue(s, colon + 1)
        sep   == SkipIn(s, val.next, JsonWs)
        dict  == DictSet(acc, key.val.v, val.val)
    IN  IF ~key.ok THEN JsonFail
        ELSE IF ~StartsAt(s, ":", colon) THEN JsonFail
        ELSE IF ~val.ok THEN JsonFail
        ELSE IF StartsAt(s, "}", sep) THEN JsonOk(sep + 1, JObj(dict))
        ELSE IF StartsAt(s, ",", sep) THEN JsonMembers(s, SkipIn(s, sep + 1, JsonWs), dict)
        ELSE JsonFail

\* the elements of an array from the value at i on
JsonElements(s, i, acc) ==
    LET val == JsonValue(s, i)
        sep == SkipIn(s, val.next, JsonWs)
    IN  IF ~val.ok THEN JsonFail
        ELSE IF StartsAt(s, "]", sep) THEN JsonOk(sep + 1, JArr(Append(acc, val.val)))
        ELSE IF StartsAt(s, ",", sep) THEN JsonElements(s, sep + 1, Append(acc, val.val))
        ELSE JsonFail

\* line 233: json.loads(s) is <<value>>, or <<>> when it raises JSONDecodeError
json_loads(s) ==
    LET r == JsonValue(s, 1)
    IN  IF r.ok /\ SkipIn(s, r.next, JsonWs) > Len(s) THEN <<r.val>> ELSE <<>>

----------------------------------------------------------------------------
(* _extract_with_regex, lines 240-288 *)

Quoted(key) == "\"" \o key \o "\""

\* the place after  \s*:\s*  that follows the place i, 0 if there is no colon
AfterColon(s, i) ==
    LET c == SkipIn(s, i, Space)
    IN  IF StartsAt(s, ":", c) THEN SkipIn(s, c + 1, Space) ELSE 0

\* the place after  \s*,\s*  that follows the place i, 0 if there is no comma
AfterComma(s, i) ==
    LET c == SkipIn(s, i, Space)
    IN  IF StartsAt(s, ",", c) THEN SkipIn(s, c + 1, Space) ELSE 0

\* the place after the greedy  \d+\.?\d*  that starts at i, 0 if no digit is at i
NumberEnd(s, i) ==
    LET b == SkipIn(s, i, Digits)
    IN  IF i < 1 \/ i > Len(s) \/ b = i THEN 0
        ELSE IF StartsAt(s, ".", b) THEN SkipIn(s, b + 1, Digits)
        ELSE b

\* float(text) of a text matched by  \d+\.?\d*
PyFloat(text) ==
    LET dot == StrFind(text, ".", 1)
    IN  IF dot = 0 THEN Number(text, "")
        ELSE Number(SubSeq(text, 1, dot - 1), SubSeq(text, dot + 1, Len(text)))

\* re.search of  "key"\s*:\s*"([^"]+)" : <<>> or <<group(1)>> of the leftmost match
QuotedField(s, key) ==
    LET Group(i) ==
            LET q == AfterColon(s, i + Len(Quoted(key)))
                e == StrFind(s, "\"", q + 1)
            IN  IF StartsAt(s, Quoted(key), i) /\ q # 0 /\ StartsAt(s, "\"", q) /\ e > q + 1
                THEN <<SubSeq(s, q + 1, e - 1)>>
                ELSE <<>>
        hits == { i \in 1..Len(s) : Group(i) # <<>> }
    IN  IF hits = {} THEN <<>> ELSE Group(MinOf(hits))

\* re.search of  "key"\s*:\s*(\d+\.?\d*) : <<>> or <<group(1)>> of the leftmost match
NumberField(s, key) ==
    LET Group(i) ==
            LET q == AfterColon(s, i + Len(Quoted(key)))
            IN  IF StartsAt(s, Quoted(key), i) /\ q # 0 /\ NumberEnd(s, q) # 0
                THEN <<SubSeq(s, q, NumberEnd(s, q) - 1)>>
                ELSE <<>>
        hits == { i \in 1..Len(s) : Group(i) # <<>> }
    IN  IF hits = {} THEN <<>> ELSE Group(MinOf(hits))

\* line 276: a match of the description-quantity-unit_price pattern that starts
\* at i: <<>> or <<[end, item]>>
ItemMatch(s, i) ==
    LET q1 == AfterColon(s, i + Len(Quoted("description")))
        e1 == StrFind(s, "\"", q1 + 1)
        k2 == AfterComma(s, e1 + 1)
        q2 == AfterColon(s, k2 + Len(Quoted("quantity")))
        e2 == NumberEnd(s, q2)
        k3 == AfterComma(s, e2)
        q3 == AfterColon(s, k3 + Len(Quoted("unit_price")))
        e3 == NumberEnd(s, q3)
    IN  IF /\ StartsAt(s, Quoted("description"), i)
           /\ q1 # 0 /\ StartsAt(s, "\"", q1) /\ e1 # 0
           /\ k2 # 0 /\ StartsAt(s, Quoted("quantity"), k2)
           /\ q2 # 0 /\ e2 # 0
           /\ k3 # 0 /\ StartsAt(s, Quoted("unit_price"), k3)
           /\ q3 # 0 /\ e3 # 0
        THEN <<[end  |-> e3,
                item |-> JObj([description |-> JStr(SubSeq(s, q1 + 1, e1 - 1)),
                               quantity    |-> JNum(PyFloat(SubSeq(s, q2, e2 - 1))),
                               unit_price  |-> JNum(PyFloat(SubSeq(s, q3, e3 - 1)))])]>>
        ELSE <<>>

RECURSIVE item_matches(_, _)
\* re.finditer: the matches from the place `from` on, left to right, none overlapping
item_matches(s, from) ==
    LET hits == { i \in from..Len(s) : ItemMatch(s, i) # <<>> }
        m    == ItemMatch(s, MinOf(hits))[1]
    IN  IF hits = {} THEN <<>> ELSE <<m.item>> \o item_matches(s, m.end)

StringFields == {"invoice_number", "invoice_date", "supplier_name", "tax_id", "bank_account"}

\* _extract_with_regex(json_str)
extract_with_regex(s) ==
    LET found == { k \in StringFields : QuotedField(s, k) # <<>> }
        total == IF NumberField(s, "total_amount") = <<>> THEN {} ELSE {"total_amount"}
    IN  JObj([k \in found \cup total \cup {"line_items"} |->
                IF k = "line_items" THEN JArr(item_matches(s, 1))
                ELSE IF k = "total_amount" THEN JNum(PyFloat(NumberField(s, k)[1]))
                ELSE JStr(QuotedField(s, k)[1])])

----------------------------------------------------------------------------
(* _extract_with_ai from line 222 on: the handling of the reply *)

MaxReplyParts == 3

GoodJson ==
    "{\"invoice_number\": \"613\", \"total_amount\": 9.5, \"line_items\": [{\"description\": \"Rack\", \"quantity\": 4, \"unit_price\": 12}]}"

\* cut short after a trailing comma: not a JSON document
BadJson ==
    "{\"invoice_number\": \"77\", \"tax_id\": \"\", \"total_amount\": 30., \"line_items\": [{\"description\": \"\", \"quantity\": 2 , \"unit_price\": 1.25},"

ReplyParts == {Fence \o "json\n", Fence, "\n", GoodJson, BadJson, "Here it is: ", "{}"}

RECURSIVE Concat(_)
Concat(parts) == IF parts = <<>> THEN "" ELSE Head(parts) \o Concat(Tail(parts))

\* the replies of the chat model: up to MaxReplyParts parts, one after the other
Replies == { Concat(parts) : parts \in UNION { [1..n -> ReplyParts] : n \in 0..MaxReplyParts } }

AiInit ==
    /\ ai_response \in Replies
    /\ aiPc = "start"
    /\ json_match = FALSE
    /\ json_str = ""
    /\ used_regex = FALSE
    /\ aiReturn = <<>>
    /\ AnalyzerIdle
    /\ DocIdle
    /\ ExtractIdle

\* lines 225-229
AiLocateJson ==
    /\ aiPc = "start"
    /\ json_match' = (FenceSearch(ai_response) # <<>>)
    /\ json_str' = IF FenceSearch(ai_response) # <<>>
                   THEN StrStrip(FenceSearch(ai_response)[1])
                   ELSE StrStrip(ai_response)
    /\ aiPc' = "parse"
    /\ UNCHANGED <<ai_response, used_regex, aiReturn>>
    /\ UNCHANGED <<analyzerVars, docVars, extractVars>>

\* lines 232-238
AiParseJson ==
    /\ aiPc = "parse"
    /\ IF json_loads(json_str) # <<>>
       THEN /\ aiReturn' = [data |-> json_loads(json_str)[1], raw_response |-> ai_response]
            /\ used_regex' = FALSE
       ELSE /\ aiReturn' = [data |-> extract_with_regex(json_str), raw_response |-> ai_response]
            /\ used_regex' = TRUE
    /\ aiPc' = "done"
    /\ UNCHANGED <<ai_response, json_match, json_str>>
    /\ UNCHANGED <<analyzerVars, docVars, extractVars>>

AiNext == AiLocateJson \/ AiParseJson

SpecAi == AiInit /\ [][AiNext]_vars

----------------------------------------------------------------------------
(* Properties of the reply handling *)

AiDone == aiPc = "done"

\* the reply has an opening fence and, after it, a closing fence
HasFencedBlock(s) ==
    \E i \in 1..Len(s) : StartsAt(s, Fence, i) /\ StrFind(s, Fence, i + 3) # 0

\* what stands between the first fence (and its json tag, if any) and the next fence
BetweenFences(s) ==
    LET rest == SubSeq(s, StrFind(s, Fence, 1) + 3, Len(s))
        body == IF StartsAt(rest, "json", 1) THEN SubSeq(rest, 5, Len(rest)) ELSE rest
    IN  SubSeq(body, 1, StrFind(body, Fence, 1) - 1)

\* the text that the claim says is parsed
ParsedText(s) == StrStrip(IF HasFencedBlock(s) THEN BetweenFences(s) ELSE s)

FieldKeys == StringFields \cup {"total_amount"}

\* C12: for every reply, the content between the fences of a fenced block is what
\* is parsed as JSON, otherwise the whole reply; a reply without a fence that is
\* a JSON document is parsed by json; and whenever parsing fails the regex
\* fallback is used and a record is returned that holds line_items and only
\* fields whose key occurs in the parsed text, in the worst case line_items alone.
C12_ReplyParsing ==
    /\ aiPc \in {"parse", "done"} =>
          /\ json_match = HasFencedBlock(ai_response)
          /\ json_str = ParsedText(ai_response)
    /\ AiDone =>
          /\ DOMAIN aiReturn = {"data", "raw_response"}
          /\ aiReturn.raw_response = ai_response
          /\ used_regex = (json_loads(ParsedText(ai_response)) = <<>>)
          /\ ~used_regex => aiReturn.data = json_loads(ParsedText(ai_response))[1]
          /\ (~StrContains(ai_response, Fence) /\ StrStrip(ai_response) \in {GoodJson, "{}"})
                => ~used_regex /\ aiReturn.data.t = "dict"
          /\ used_regex =>
                /\ aiReturn.data.t = "dict"
                /\ "line_items" \in DOMAIN aiReturn.data.v
                /\ aiReturn.data.v["line_items"].t = "list"
                /\ DOMAIN aiReturn.data.v \subseteq FieldKeys \cup {"line_items"}
                /\ \A k \in FieldKeys :
                      k \in DOMAIN aiReturn.data.v => StrContains(json_str, Quoted(k))
                /\ (\A k \in FieldKeys \cup {"description"} : ~StrContains(json_str, Quoted(k)))
                      => aiReturn.data = JObj([line_items |-> JArr(<<>>)])

\* a fenced, tagged JSON document was parsed by json
C12_Witness ==
    /\ AiDone
    /\ ai_response = Fence \o "json\n" \o GoodJson \o Fence
    /\ json_match
    /\ json_str = GoodJson
    /\ ~used_regex
    /\ aiReturn.data.v["invoice_number"] = JStr("613")

\* a reply that is not JSON went through the fallback, which located some fields
C12_WitnessFallback ==
    /\ AiDone
    /\ ai_response = "Here it is: " \o BadJson
    /\ used_regex
    /\ DOMAIN aiReturn.data.v = {"invoice_number", "total_amount", "line_items"}
    /\ Len(aiReturn.data.v["line_items"].v) = 1

----------------------------------------------------------------------------
(* extract_invoice_data, lines 290-408: str methods and patterns *)

UpperLetters == "ABCDEFGHIJKLMNOPQRSTUVWXYZ"

LowerLetters == "abcdefghijklmnopqrstuvwxyz"

Upper == { Ch(UpperLetters, k) : k \in 1..Len(UpperLetters) }

LowerOf(c) ==
    IF c \in Upper
    THEN Ch(LowerLetters, CHOOSE k \in 1..Len(UpperLetters) : Ch(UpperLetters, k) = c)
    ELSE c

RECURSIVE StrLower(_)
\* s.lower()
StrLower(s) == IF s = "" THEN "" ELSE LowerOf(Ch(s, 1)) \o StrLower(SubSeq(s, 2, Len(s)))

RECURSIVE Splitlines(_)
\* s.splitlines(), the line boundary being "\n": a final "\n" opens no line
Splitlines(s) ==
    LET nl == StrFind(s, "\n", 1)
    IN  IF s = "" THEN <<>>
        ELSE IF nl = 0 THEN <<s>>
        ELSE <<SubSeq(s, 1, nl - 1)>> \o Splitlines(SubSeq(s, nl + 1, Len(s)))

\* any(kw in s for kw in kws)
AnyIn(s, kws) == \E kw \in kws : StrContains(s, kw)

\* s[i-1], "" outside of s
At(s, i) == IF i \in 1..Len(s) THEN Ch(s, i) ELSE ""

\* the first place of s whose character is in class, 0 if none
FirstIn(s, class) ==
    LET hits == { k \in 1..Len(s) : Ch(s, k) \in class }
    IN  IF hits = {} THEN 0 ELSE MinOf(hits)

\* re.search of  [class]+ : <<>> or <<group(0)>>
ClassRun(s, class) ==
    IF FirstIn(s, class) = 0 THEN <<>>
    ELSE <<SubSeq(s, FirstIn(s, class), SkipIn(s, FirstIn(s, class), class) - 1)>>

\* n digits stand at i
DigitsAt(s, i, n) == \A k \in i..(i + n - 1) : At(s, k) \in Digits

DateSeps == {".", "/", "-"}

DecimalSeps == {".", ","}

\* the place after  \d{1,2}[./-]  at i, 0 if it does not match there
DayThenSep(s, i) ==
    IF DigitsAt(s, i, 2) /\ At(s, i + 2) \in DateSeps THEN i + 3
    ELSE IF DigitsAt(s, i, 1) /\ At(s, i + 1) \in DateSeps THEN i + 2
    ELSE 0

\* the place after a match at i of the date pattern, its first alternative
\* \d{1,2}[./-]\d{1,2}[./-]\d{4}  tried before  \d{4}[./-]\d{1,2}[./-]\d{1,2} ; 0 if none
DateEnd(s, i) ==
    LET a == DayThenSep(s, i)
        b == DayThenSep(s, a)
        c == DayThenSep(s, i + 5)
    IN  IF a # 0 /\ b # 0 /\ DigitsAt(s, b, 4) THEN b + 4
        ELSE IF DigitsAt(s, i, 4) /\ At(s, i + 4) \in DateSeps /\ c # 0 /\ DigitsAt(s, c, 1)
             THEN IF DigitsAt(s, c, 2) THEN c + 2 ELSE c + 1
        ELSE 0

\* re.search of the date pattern: <<>> or <<group(1)>>
DateSearch(s) ==
    LET hits == { i \in 1..Len(s) : DateEnd(s, i) # 0 }
    IN  IF hits = {} THEN <<>> ELSE <<SubSeq(s, MinOf(hits), DateEnd(s, MinOf(hits)) - 1)>>

\* the place after a match at i of  [A-Z]{2}\d{2}[A-Z0-9]{10,30} , 0 if none
IbanEnd(s, i) ==
    LET run == SkipIn(s, i + 4, Upper \cup Digits) - (i + 4)
    IN  IF At(s, i) \in Upper /\ At(s, i + 1) \in Upper /\ DigitsAt(s, i + 2, 2) /\ run >= 10
        THEN i + 4 + (IF run > 30 THEN 30 ELSE run)
        ELSE 0

IbanSearch(s) ==
    LET hits == { i \in 1..Len(s) : IbanEnd(s, i) # 0 }
    IN  IF hits = {} THEN <<>> ELSE <<SubSeq(s, MinOf(hits), IbanEnd(s, MinOf(hits)) - 1)>>

\* the place after a match at i of  \d{1,3}[.,]\d{2} , 0 if none
DecimalEnd(s, i) ==
    LET e == SkipIn(s, i, Digits)
    IN  IF i >= 1 /\ i <= Len(s) /\ e > i /\ e <= i + 3
           /\ At(s, e) \in DecimalSeps /\ DigitsAt(s, e + 1, 2)
        THEN e + 3
        ELSE 0

\* re.search of  \d{1,3}[.,]\d{2} : the place of the leftmost match, 0 if none
DecimalStart(s) ==
    LET hits == { i \in 1..Len(s) : DecimalEnd(s, i) # 0 }
    IN  IF hits = {} THEN 0 ELSE MinOf(hits)

\* re.search of  \$?\s?(\d{1,3}(?:[.,]\d{2})?) : <<>> or <<group(1)>>.  The match
\* holds the first digit of s, whatever stands before it.
TotalSearch(s) ==
    LET p == FirstIn(s, Digits)
        e == IF SkipIn(s, p, Digits) > p + 3 THEN p + 3 ELSE SkipIn(s, p, Digits)
    IN  IF p = 0 THEN <<>>
        ELSE IF At(s, e) \in DecimalSeps /\ DigitsAt(s, e + 1, 2) THEN <<SubSeq(s, p, e + 2)>>
        ELSE <<SubSeq(s, p, e - 1)>>

\* float(s.replace(",", ".")) of a matched amount
AmountFloat(s) ==
    LET d == FirstIn(s, DecimalSeps)
    IN  IF d = 0 THEN Number(s, "") ELSE Number(SubSeq(s, 1, d - 1), SubSeq(s, d + 1, Len(s)))

----------------------------------------------------------------------------
(* extract_invoice_data: the first pass over the lines, lines 302-357 *)

\* lines 296-300
get_next_nonempty(lns, i) ==
    LET later == { j \in (i + 1)..Len(lns) : StrStrip(lns[j]) # "" }
    IN  IF later = {} THEN "" ELSE StrStrip(lns[MinOf(later)])

\* line 304
combined_text(lns, i) == lns[i] \o " " \o get_next_nonempty(lns, i)

DateKeywords == {"invoice date", "date of issue", "issue date", "date:"}

\* line 320: the lines the forward scan for a date passes over
CompetingKeywords == {"tax id", "iban", "client", "total", "description", "qty", "summary", "items"}

\* the if/elif chain of lines 306-348: the field of the branch line i takes,
\* "none" when it takes no branch; done is the invoice built so far
Branch(lns, i, done) ==
    LET line_clean == StrLower(StrStrip(lns[i]))
        combined   == StrLower(combined_text(lns, i))
    IN  IF AnyIn(line_clean, {"invoice no", "invoice number"}) THEN "invoice_number"
        ELSE IF AnyIn(line_clean, {"supplier", "seller"}) THEN "supplier_name"
        ELSE IF AnyIn(combined, DateKeywords) THEN "invoice_date"
        ELSE IF StrContains(line_clean, "service period") THEN "service_date"
        ELSE IF StrContains(line_clean, "due date") THEN "due_date"
        ELSE IF StrContains(line_clean, "tax id") /\ "tax_id" \notin DOMAIN done THEN "tax_id"
        ELSE IF AnyIn(line_clean, {"bank account", "iban"}) THEN "bank_account"
        ELSE IF AnyIn(line_clean, {"total amount", "total"}) THEN "total_amount"
        ELSE "none"

\* lines 318-324: the first later line, competing lines passed over, that holds a date
ForwardDate(lns, i) ==
    LET ok == { j \in (i + 1)..Len(lns) :
                   /\ ~AnyIn(StrLower(StrStrip(lns[j])), CompetingKeywords)
                   /\ DateSearch(StrStrip(lns[j])) # <<>> }
    IN  IF ok = {} THEN <<>> ELSE DateSearch(StrStrip(lns[MinOf(ok)]))

\* lines 351-355: the first of the up to three lines after line i that holds an amount
TotalProbe(lns, i) ==
    LET last == IF i + 3 < Len(lns) THEN i + 3 ELSE Len(lns)
        ok   == { j \in (i + 1)..last : TotalSearch(lns[j]) # <<>> }
    IN  IF ok = {} THEN <<>> ELSE TotalSearch(lns[MinOf(ok)])

\* what the branch assigns to its field: <<>> when it assigns nothing, else <<value>>
FieldValue(lns, i, branch) ==
    LET combined == combined_text(lns, i)
        total    == IF TotalSearch(lns[i]) # <<>> THEN TotalSearch(lns[i]) ELSE TotalProbe(lns, i)
    IN  CASE branch = "invoice_number" -> ClassRun(combined, Digits)
          [] branch = "supplier_name"  -> <<get_next_nonempty(lns, i)>>
          [] branch = "invoice_date"   -> IF DateSearch(combined) # <<>> THEN DateSearch(combined)
                                          ELSE ForwardDate(lns, i)
          [] branch = "service_date"   -> DateSearch(StrStrip(combined))
          [] branch = "due_date"       -> DateSearch(StrStrip(combined))
          [] branch = "tax_id"         -> ClassRun(combined, Digits \cup {"-"})
          [] branch = "bank_account"   -> IbanSearch(combined)
          [] branch = "total_amount"   -> IF total = <<>> THEN <<>> ELSE <<AmountFloat(total[1])>>
          [] OTHER                     -> <<>>

\* one turn of the loop of line 302: the invoice after line i
first_pass(lns, i, done) ==
    LET value == FieldValue(lns, i, Branch(lns, i, done))
    IN  IF value = <<>> THEN done ELSE DictSet(done, Branch(lns, i, done), value[1])

----------------------------------------------------------------------------
(* extract_invoice_data: the scan for line items, lines 359-404 *)

\* line 367: re.match of  ^\d+\.\s  on the stripped line
IsOrdinal(line) ==
    LET e == SkipIn(line, 1, Digits)
    IN  e > 1 /\ At(line, e) = "." /\ At(line, e + 1) \in Space

\* line 370: re.match of  ^\d+\.\s(.+?)\s(\d{1,3}[.,]\d{2})$ : the place of group 2,
\* 0 if the line does not match
StrictQuantity(line) ==
    LET from == SkipIn(line, 1, Digits) + 2
        hits == { q \in (from + 2)..Len(line) :
                     DecimalEnd(line, q) = Len(line) + 1 /\ At(line, q - 1) \in Space }
    IN  IF hits = {} THEN 0 ELSE MinOf(hits)

RECURSIVE DecimalSub(_)
\* line 382: re.sub of  (\d{1,3}[.,]\d{2})  by ''
DecimalSub(s) ==
    IF DecimalStart(s) = 0 THEN s
    ELSE SubSeq(s, 1, DecimalStart(s) - 1)
            \o DecimalSub(SubSeq(s, DecimalEnd(s, DecimalStart(s)), Len(s)))

\* lines 370-387: the item an ordinal line opens
OpenItem(line) ==
    LET from == SkipIn(line, 1, Digits) + 2
        q    == StrictQuantity(line)
        rest == StrStrip(SubSeq(line, from - 1, Len(line)))
    IN  IF q # 0
        THEN [description |-> StrStrip(SubSeq(line, from, q - 2)),
              quantity    |-> AmountFloat(SubSeq(line, q, Len(line))),
              unit_price  |-> None]
        ELSE [description |-> StrStrip(DecimalSub(rest)),
              quantity    |-> IF DecimalStart(rest) = 0 THEN <<1, 0>>
                              ELSE AmountFloat(SubSeq(rest, DecimalStart(rest),
                                                      DecimalEnd(rest, DecimalStart(rest)) - 1)),
              unit_price  |-> None]

\* line 389: the words that end the description of an item
StopKeywords == {"summary", "vat", "net price", "gross", "client", "$"}

\* line 389: the line continues the description of the open item
IsContinuation(line, item) ==
    /\ ~IsFalsy(item)
    /\ DecimalStart(line) = 0
    /\ ~AnyIn(StrLower(line), StopKeywords)

\* line 393: re.match of  ^\d{1,3}[.,]\d{2}$
IsDecimalLine(line) == DecimalEnd(line, 1) = Len(line) + 1

\* variant: a second "net price" line switches the collection off again
CollectAfter_Toggle(collecting) == ~collecting

\* line 392: collecting_prices after a "net price" line
CollectAfter(collecting) == TRUE

\* variant: the prices are handed out from the last item backwards
BackFill_Reversed(items, prices) ==
    [k \in 1..Len(items) |->
        IF Len(items) - k + 1 <= Len(prices)
        THEN [items[k] EXCEPT !.unit_price = prices[Len(items) - k + 1]]
        ELSE items[k]]

\* lines 402-404
BackFill(items, prices) ==
    [k \in 1..Len(items) |->
        IF k <= Len(prices) THEN [items[k] EXCEPT !.unit_price = prices[k]] ELSE items[k]]

\* variant: any text is split
SplitRaises_Never(t) == FALSE

\* line 293: text.splitlines() raises AttributeError when text is not a str
SplitRaises(t) == t.kind # "str"

----------------------------------------------------------------------------
(* extract_invoice_data: the call *)

MaxFieldLines == 3
MaxItemLines == 4

RECURSIVE JoinLines(_)
\* "\n".join(lns)
JoinLines(lns) ==
    IF lns = <<>> THEN ""
    ELSE IF Len(lns) = 1 THEN lns[1]
    ELSE lns[1] \o "\n" \o JoinLines(Tail(lns))

\* the header lines of an invoice text
FieldLines ==
    {"Invoice no: 613", "Seller:", "Acme Ltd", "Invoice date: 01/02/2023", "Due Date: 05/05/2023",
     "Due date", "Service period", "03/04/2022", "Tax id: 12-3", "IBAN GB12ABCD12345678",
     "Total: $9,50", ""}

\* the lines of the item table of an invoice text
ItemLines == {"1. Rack 2,00", "2. Bolt", "steel", "Net price", "12,00", "Summary"}

TextsOf(voc, n) ==
    { [kind |-> "str", v |-> JoinLines(lns)] : lns \in UNION { [1..k -> voc] : k \in 0..n } }

\* text = None
NoneText == [kind |-> "NoneType", v |-> ""]

ExtractInit(texts) ==
    /\ inputText \in texts \cup {NoneText}
    /\ exPc = "start"
    /\ textLines = <<>>
    /\ lineNo = 0
    /\ extracted = <<>>
    /\ branches = <<>>
    /\ current_item = <<>>
    /\ net_prices = <<>>
    /\ collecting_prices = FALSE
    /\ exRaised = FALSE
    /\ exReturn = <<>>
    /\ AnalyzerIdle
    /\ DocIdle
    /\ AiIdle

\* lines 292-294
ExtractSplit ==
    /\ exPc = "start"
    /\ IF SplitRaises(inputText)
       THEN /\ exRaised' = TRUE
            /\ exPc' = "except"
            /\ UNCHANGED <<textLines, lineNo>>
       ELSE /\ textLines' = Splitlines(inputText.v)
            /\ lineNo' = 1
            /\ exPc' = "first"
            /\ UNCHANGED exRaised
    /\ UNCHANGED <<inputText, extracted, branches, current_item, net_prices,
                   collecting_prices, exReturn>>
    /\ UNCHANGED <<analyzerVars, docVars, aiVars>>

\* lines 302-357, one turn of the loop
ExtractFirstPass ==
    /\ exPc = "first"
    /\ lineNo <= Len(textLines)
    /\ extracted' = first_pass(textLines, lineNo, extracted)
    /\ branches' = Append(branches, Branch(textLines, lineNo, extracted))
    /\ lineNo' = lineNo + 1
    /\ UNCHANGED <<inputText, exPc, textLines, current_item, net_prices,
                   collecting_prices, exRaised, exReturn>>
    /\ UNCHANGED <<analyzerVars, docVars, aiVars>>

\* lines 359-363, after the last turn of the first loop
ExtractBeginScan ==
    /\ exPc = "first"
    /\ lineNo > Len(textLines)
    /\ extracted' = DictSet(extracted, "line_items", <<>>)
    /\ current_item' = <<>>
    /\ net_prices' = <<>>
    /\ collecting_prices' = FALSE
    /\ lineNo' = 1
    /\ exPc' = "scan"
    /\ UNCHANGED <<inputText, textLines, branches, exRaised, exReturn>>
    /\ UNCHANGED <<analyzerVars, docVars, aiVars>>

\* variant: the item closed by a "summary" line stays the current one
AfterClose_Keep(item) == item

\* line 397: current_item = {} once the item is closed
AfterClose(item) == <<>>

\* lines 365-397, one turn of the loop
ExtractScanLine ==
    /\ exPc = "scan"
    /\ lineNo <= Len(textLines)
    /\ LET line  == StrStrip(textLines[lineNo])
           items == extracted["line_items"]
       IN  IF IsOrdinal(line)
           THEN /\ extracted' = IF IsFalsy(current_item) THEN extracted
                                ELSE [extracted EXCEPT !["line_items"] = Append(items, current_item)]
                /\ current_item' = OpenItem(line)
                /\ UNCHANGED <<net_prices, collecting_prices>>
           ELSE IF IsContinuation(line, current_item)
           THEN /\ current_item' = [current_item EXCEPT !.description = @ \o " " \o line]
                /\ UNCHANGED <<extracted, net_prices, collecting_prices>>
           ELSE IF StrContains(StrLower(line), "net price")
           THEN /\ collecting_prices' = CollectAfter(collecting_prices)
                /\ UNCHANGED <<extracted, current_item, net_prices>>
           ELSE IF collecting_prices /\ IsDecimalLine(line)
           THEN /\ net_prices' = Append(net_prices, AmountFloat(line))
                /\ UNCHANGED <<extracted, current_item, collecting_prices>>
           ELSE IF /\ ~IsFalsy(current_item)
                   /\ (StrContains(StrLower(line), "summary") \/ lineNo = Len(textLines))
           THEN /\ extracted' = [extracted EXCEPT !["line_items"] = Append(items, current_item)]
                /\ current_item' = AfterClose(current_item)
                /\ UNCHANGED <<net_prices, collecting_prices>>
           ELSE UNCHANGED <<extracted, current_item, net_prices, collecting_prices>>
    /\ lineNo' = lineNo + 1
    /\ UNCHANGED <<inputText, exPc, textLines, branches, exRaised, exReturn>>
    /\ UNCHANGED <<analyzerVars, docVars, aiVars>>

\* lines 399-400, after the last turn of the scan
ExtractEndScan ==
    /\ exPc = "scan"
    /\ lineNo > Len(textLines)
    /\ extracted' = IF IsFalsy(current_item) THEN extracted
                    ELSE [extracted EXCEPT !["line_items"] = Append(@, current_item)]
    /\ exPc' = "backfill"
    /\ UNCHANGED <<inputText, textLines, lineNo, branches, current_item, net_prices,
                   collecting_prices, exRaised, exReturn>>
    /\ UNCHANGED <<analyzerVars, docVars, aiVars>>

\* lines 402-406: the prices are written into the items and the invoice is returned
ExtractBackFill ==
    /\ exPc = "backfill"
    /\ extracted' = [extracted EXCEPT !["line_items"] = BackFill(@, net_prices)]
    /\ exReturn' = extracted'
    /\ exPc' = "done"
    /\ UNCHANGED <<inputText, textLines, lineNo, branches, current_item, net_prices,
                   collecting_prices, exRaised>>
    /\ UNCHANGED <<analyzerVars, docVars, aiVars>>

\* lines 407-408
ExtractExcept ==
    /\ exPc = "except"
    /\ exReturn' = <<>>
    /\ exPc' = "done"
    /\ UNCHANGED <<inputText, textLines, lineNo, extracted, branches, current_item,
                   net_prices, collecting_prices, exRaised>>
    /\ UNCHANGED <<analyzerVars, docVars, aiVars>>

ExtractNext ==
    \/ ExtractSplit
    \/ ExtractFirstPass
    \/ ExtractBeginScan
    \/ ExtractScanLine
    \/ ExtractEndScan
    \/ ExtractBackFill
    \/ ExtractExcept

\* the call on the header lines of an invoice
SpecFields == ExtractInit(TextsOf(FieldLines, MaxFieldLines)) /\ [][ExtractNext]_vars

\* the call on the lines of an item table
SpecItems == ExtractInit(TextsOf(ItemLines, MaxItemLines)) /\ [][ExtractNext]_vars

----------------------------------------------------------------------------
(* Properties of extract_invoice_data *)

ExDone == exPc = "done"

ExReturned == ExDone /\ ~exRaised

\* C13: the call never raises: an exception is raised only on a text that is not
\* a str, it reaches the except clause, and the empty record is returned, nothing
\* of the invoice being kept; otherwise the returned record holds a line_items
\* sequence.
C13_NeverRaises ==
    /\ exRaised <=> exPc = "except" \/ (ExDone /\ inputText.kind # "str")
    /\ exRaised => inputText.kind # "str" /\ IsFalsy(extracted)
    /\ ExDone =>
          IF inputText.kind = "str"
          THEN /\ ~exRaised
               /\ "line_items" \in DOMAIN exReturn
               /\ DOMAIN exReturn["line_items"] = 1..Len(exReturn["line_items"])
          ELSE /\ exRaised
               /\ IsFalsy(exReturn)

\* text = None was answered with the empty record
C13_Witness ==
    /\ ExDone
    /\ inputText = NoneText
    /\ exRaised
    /\ IsFalsy(exReturn)

ScalarFields ==
    {"invoice_number", "supplier_name", "invoice_date", "service_date", "due_date", "tax_id",
     "bank_account", "total_amount"}

\* C14 (as stated): in every returned record a scalar field is present only if a
\* value was matched for it: no field is present with an empty value.
C14_PresentOnlyIfMatched ==
    ExReturned =>
        \A k \in (ScalarFields \ {"total_amount"}) \cap DOMAIN exReturn : exReturn[k] # ""

\* the branch line i takes when nothing follows it, the tax id being known or
\* not as it was when the line was read
OwnLineBranch(i) ==
    Branch(<<textLines[i]>>, 1,
           IF \E j \in 1..(i - 1) : branches[j] = "tax_id" THEN [tax_id |-> ""] ELSE <<>>)

\* C15 (as stated): each line of the first pass is classified by the keywords of
\* the line itself; what the following line holds never changes the field a
\* line is classified as.
C15_ClassifiedByOwnLine ==
    \A i \in 1..Len(branches) : branches[i] = OwnLineBranch(i)

\* the line just read by the first pass
JustRead == lineNo - 1

\* C16 (as stated): a line that holds "due date" and none of the keywords of
\* higher priority, and whose lookahead holds a date, sets due_date to the first
\* such date and is not taken for the invoice date.
C16_DueDateAssigned ==
    (/\ exPc = "first"
     /\ JustRead >= 1
     /\ StrContains(StrLower(StrStrip(textLines[JustRead])), "due date")
     /\ ~AnyIn(StrLower(StrStrip(textLines[JustRead])),
               {"invoice no", "invoice number", "supplier", "seller", "invoice date",
                "issue date", "date of issue", "service period"})
     /\ DateSearch(combined_text(textLines, JustRead)) # <<>>)
    => /\ branches[JustRead] = "due_date"
       /\ "due_date" \in DOMAIN extracted
       /\ extracted["due_date"] = DateSearch(combined_text(textLines, JustRead))[1]

\* the number of lines the scan has read
Scanned == IF exPc = "scan" THEN lineNo - 1 ELSE Len(textLines)

InScan == exPc \in {"scan", "backfill", "done"} /\ ~exRaised

ScanLineAt(j) == StrStrip(textLines[j])

\* the ordinal lines among the first n lines, in document order
RECURSIVE OrdinalLines(_)
OrdinalLines(n) ==
    IF n = 0 THEN <<>>
    ELSE IF IsOrdinal(ScanLineAt(n)) THEN Append(OrdinalLines(n - 1), n)
    ELSE OrdinalLines(n - 1)

\* the items closed so far, followed by the open one
ItemsSoFar ==
    IF exPc = "scan" /\ ~IsFalsy(current_item)
    THEN Append(extracted["line_items"], current_item)
    ELSE extracted["line_items"]

\* C17: the line items are exactly the items of the ordinal lines, one for each
\* and in document order, however each was closed (next ordinal line, "summary"
\* line, last line, end of the scan); and while no item is open, as after a
\* "summary" line closed one, a line that is not ordinal changes no item.
C17_OneItemPerOrdinalLine ==
    /\ [](InScan =>
            /\ Len(ItemsSoFar) = Len(OrdinalLines(Scanned))
            /\ \A k \in 1..Len(ItemsSoFar) :
                  /\ ItemsSoFar[k].quantity = OpenItem(ScanLineAt(OrdinalLines(Scanned)[k])).quantity
                  /\ StartsAt(ItemsSoFar[k].description,
                              OpenItem(ScanLineAt(OrdinalLines(Scanned)[k])).description, 1))
    /\ [][(/\ exPc = "scan"
           /\ lineNo <= Len(textLines)
           /\ IsFalsy(current_item)
           /\ ~IsOrdinal(ScanLineAt(lineNo)))
          => (extracted' = extracted /\ IsFalsy(current_item'))]_vars

\* two items, the first closed by a "summary" line and followed by a line of
\* text, the second closed by the end of the scan
C17_Witness ==
    /\ ExDone
    /\ inputText.v = "1. Rack 2,00\nSummary\nsteel\n2. Bolt"
    /\ Len(exReturn["line_items"]) = 2
    /\ exReturn["line_items"][1].description = "Rack"
    /\ exReturn["line_items"][2].description = "Bolt"

NetPriceLines(n) ==
    { j \in 1..n : ~IsOrdinal(ScanLineAt(j)) /\ StrContains(StrLower(ScanLineAt(j)), "net price") }

\* the standalone decimal lines among the first n that the predicate on(j) lets through
RECURSIVE PricesWhere(_, _)
PricesWhere(n, on) ==
    IF n = 0 THEN <<>>
    ELSE IF IsDecimalLine(ScanLineAt(n)) /\ on[n]
         THEN Append(PricesWhere(n - 1, on), AmountFloat(ScanLineAt(n)))
    ELSE PricesWhere(n - 1, on)

\* C19 (as stated): each "net price" line toggles the collection, and the
\* collected prices are the standalone decimal lines read while it is on.
C19_AsStated ==
    InScan =>
        /\ collecting_prices = (Cardinality(NetPriceLines(Scanned)) % 2 = 1)
        /\ net_prices = PricesWhere(Scanned,
                            [j \in 1..Len(textLines) |-> Cardinality(NetPriceLines(j - 1)) % 2 = 1])

\* C19: the collection starts off, is switched on by the first line that holds
\* "net price" and is not ordinal, and stays on; the collected prices are, in
\* document order, the standalone decimal lines read while it is on, none read
\* before.
C19_CollectedPrices ==
    InScan =>
        /\ collecting_prices = (NetPriceLines(Scanned) # {})
        /\ net_prices = PricesWhere(Scanned,
                            [j \in 1..Len(textLines) |-> NetPriceLines(j - 1) # {}])

\* a price read after two "net price" lines was collected
C19_Witness ==
    /\ ExDone
    /\ inputText.v = "Net price\nNet price\n12,00"
    /\ collecting_prices
    /\ net_prices = <<<<12, 0>>>>

----------------------------------------------------------------------------
(* The whole tool *)

\* a record is analysed, a document is processed, a reply is handled, or a text is read
Init ==
    \/ AnalyzerInit
    \/ DocInit
    \/ AiInit
    \/ ExtractInit(TextsOf(FieldLines, MaxFieldLines) \cup TextsOf(ItemLines, MaxItemLines))

Next == AnalyzerNext \/ DocNext \/ AiNext \/ ExtractNext

Spec == Init /\ [][Next]_vars

====
